---- MODULE Spec2Model ----
(***************************************************************************)
(* Shamir-style threshold secret sharing used to average private integers  *)
(* (src/main.py: generate_coeff, poly, generate_shares, reconstruct_secret, *)
(* shamir_secret).                                                          *)
(*                                                                         *)
(* The field modulus FIELD_SIZE is a module-level constant of the program  *)
(* (a 75-bit prime).  TLC's integers are 32 bits wide, so the modulus is a *)
(* state component fixed by Init and drawn from small primes; every        *)
(* operator reads it as the program reads its global.  Python integers are *)
(* unbounded, and the bounds below keep every intermediate product inside  *)
(* TLC's range, so no reduction is added that the code does not make.      *)
(***************************************************************************)
EXTENDS Integers, Sequences, FiniteSets

VARIABLES
    FIELD_SIZE,     \* the modulus all arithmetic is reduced by
    n,              \* number of participants
    k,              \* second argument of generate_shares
    secrets,        \* the private integers
    pc,             \* position in the pipeline
    coeffs,         \* coeffs[j]: the list generate_coeff returned for secrets[j]
    shares,         \* result of generate_shares: shares[i] = <<i, f_1(i), ...>>
    chosen_shares,  \* the list handed to reconstruct_secret
    combined,       \* index |-> f_i, for the shares whose f_i has been summed
    result,         \* <<>> or <<value returned by reconstruct_secret>>
    avg,            \* <<>> or <<numerator, denominator>> of result / n
    fx              \* <<>> or <<j, x, poly(x, coeffs[j])>>

vars == <<FIELD_SIZE, n, k, secrets, pc, coeffs, shares, chosen_shares,
          combined, result, avg, fx>>

(***************************** bounds **************************************)
\* largest secret (MAX_INTEGER of the program, scaled to the small fields)
MAX_INTEGER == 1
\* participants in a run of shamir_secret
MaxN == 3
\* participants and secrets in direct calls of the functions
MaxParticipants == 4
MaxSecrets == 1
\* the coefficient draws of one generate_shares are all explored when they
\* number at most MaxOutcomes; beyond that, those are explored in which every
\* random coefficient is at an end of its range, 0 or FIELD_SIZE - 1
MaxOutcomes == 125

\* the moduli of the explored fields
Primes == {2, 3, 5, 7}

(***************************** helpers *************************************)
RECURSIVE SumSeq(_)
SumSeq(s) == IF s = <<>> THEN 0 ELSE Head(s) + SumSeq(Tail(s))

RECURSIVE MaxSeq(_)
MaxSeq(s) == IF s = <<>> THEN 0
             ELSE LET r == MaxSeq(Tail(s)) IN IF Head(s) > r THEN Head(s) ELSE r

Indices(shs) == {shs[a][1] : a \in DOMAIN shs}

Distinct(shs) == \A a, b \in DOMAIN shs : a # b => shs[a][1] # shs[b][1]

(***************************** the program *********************************)
\* randint leaving out the upper end, as random.randrange(a, b) does
randint_short(a, b) == a..(b - 1)

\* random.randint(a, b): any integer of a..b
randint(a, b) == a..b

\* pow with 0 to the power 0 taken as 0
RECURSIVE pow_zero(_, _)
pow_zero(x, e) == IF x = 0 THEN 0 ELSE IF e = 0 THEN 1 ELSE x * pow_zero(x, e - 1)

\* pow(x, e) on integers with e >= 0; Python gives pow(0, 0) = 1
RECURSIVE pow(_, _)
pow(x, e) == IF e = 0 THEN 1 ELSE x * pow(x, e - 1)

\* pow(a, -1, FIELD_SIZE) raises ValueError unless a is invertible
Invertible(a) == \E x \in 0..(FIELD_SIZE - 1) : (a * x) % FIELD_SIZE = 1

\* pow(a, -1, FIELD_SIZE): the inverse of a in 0..FIELD_SIZE-1
pow_inv(a) == CHOOSE x \in 0..(FIELD_SIZE - 1) : (a * x) % FIELD_SIZE = 1

\* generate_coeff drawing t random coefficients before the secret
generate_coeff_degree(t, secret) ==
    {r \o <<secret>> : r \in [1..t -> randint(0, FIELD_SIZE - 1)]}

\* generate_coeff(t, secret): every list the call can return
generate_coeff(t, secret) ==
    {r \o <<secret>> : r \in [1..(t - 1) -> randint(0, FIELD_SIZE - 1)]}

\* poly_loop with every exponent one too high
RECURSIVE poly_loop_exp(_, _, _)
poly_loop_exp(x, coeff, i) ==
    IF i > Len(coeff) THEN 0
    ELSE ((coeff[i] * pow(x, Len(coeff) - i + 1)) % FIELD_SIZE)
             + poly_loop_exp(x, coeff, i + 1)

\* the loop of poly from position i on (1-based: exponent k-i-1 becomes k-i)
RECURSIVE poly_loop(_, _, _)
poly_loop(x, coeff, i) ==
    IF i > Len(coeff) THEN 0
    ELSE ((coeff[i] * pow(x, Len(coeff) - i)) % FIELD_SIZE) + poly_loop(x, coeff, i + 1)

poly(x, coeff) == poly_loop(x, coeff, 1) % FIELD_SIZE

\* base^d <= budget, computed without forming the power
RECURSIVE FitsBudget(_, _, _)
FitsBudget(base, d, budget) ==
    d = 0 \/ (base <= budget /\ FitsBudget(base, d - 1, budget \div base))

\* generate_shares(n, kk, ss) makes (kk - 1) * Len(ss) draws from the field:
\* are all their outcomes explored?
Exhaustive(kk, ss) ==
    kk <= 1 \/ FitsBudget(FIELD_SIZE, (kk - 1) * Len(ss), MaxOutcomes)

\* the lists of coefficient lists generate_shares can draw, one per secret,
\* with the random coefficients in range
RECURSIVE CoeffChoicesIn(_, _, _)
CoeffChoicesIn(kk, ss, range) ==
    IF ss = <<>> THEN {<<>>}
    ELSE LET first == {c \in generate_coeff(kk, Head(ss)) :
                          \A d \in 1..(Len(c) - 1) : c[d] \in range}
         IN {<<c>> \o rest : c \in first, rest \in CoeffChoicesIn(kk, Tail(ss), range)}

\* the coefficient draws of generate_shares(n, kk, ss) that are explored
CoeffChoices(kk, ss) ==
    CoeffChoicesIn(kk, ss, IF Exhaustive(kk, ss) THEN 0..(FIELD_SIZE - 1)
                           ELSE {0, FIELD_SIZE - 1})

\* the shares generate_shares builds from the drawn coefficient lists
SharesOf(nn, cs) ==
    [i \in 1..nn |-> <<i>> \o [j \in 1..Len(cs) |-> poly(i, cs[j])]]

\* f_i leaving out the share of the first secret
f_i_skip(share_i) == SumSeq(Tail(Tail(share_i))) % FIELD_SIZE

\* the sum of a person's shares, reduced
f_i(share_i) == SumSeq(Tail(share_i)) % FIELD_SIZE

\* l_loop with the factor j in place of -j
RECURSIVE l_loop_sign(_, _, _)
l_loop_sign(i, shs, b) ==
    IF b > Len(shs) THEN 1
    ELSE LET j == shs[b][1] IN
         (IF j # i THEN j * pow_inv(i - j) ELSE 1) * l_loop_sign(i, shs, b + 1)

\* the loop computing l_i from position b of shs on
RECURSIVE l_loop(_, _, _)
l_loop(i, shs, b) ==
    IF b > Len(shs) THEN 1
    ELSE LET j == shs[b][1] IN
         (IF j # i THEN (-j) * pow_inv(i - j) ELSE 1) * l_loop(i, shs, b + 1)

l_i(i, shs) == l_loop(i, shs, 1)

\* the outer loop of reconstruct_secret from position a on
RECURSIVE result_loop(_, _)
result_loop(shs, a) ==
    IF a > Len(shs) THEN 0
    ELSE ((l_i(shs[a][1], shs) * f_i(shs[a])) % FIELD_SIZE) + result_loop(shs, a + 1)

reconstruct_secret(shs) == result_loop(shs, 1) % FIELD_SIZE

\* reconstruct_secret raises ValueError: some pow(i-j, -1, FIELD_SIZE) has no value
Raises(shs) ==
    \E a, b \in DOMAIN shs :
        shs[a][1] # shs[b][1] /\ ~Invertible(shs[a][1] - shs[b][1])

\* CombinedOf summing the shares of every participant, chosen or not
CombinedOf_all(shs) == [i \in DOMAIN shares |-> f_i(shares[i])]

\* the f_i values reconstruct_secret sums, by participant index
CombinedOf(shs) == [i \in Indices(shs) |->
                       f_i(shs[CHOOSE a \in DOMAIN shs : shs[a][1] = i])]

\* sample drawing with replacement, as random.choices does
sample_choices(population, c) ==
    {[p \in 1..c |-> population[g[p]]] : g \in [1..c -> DOMAIN population]}

\* random.sample(population, c): every list the call can return
sample(population, c) ==
    {[p \in 1..c |-> population[g[p]]] :
        g \in {h \in [1..c -> DOMAIN population] :
                   \A p, q \in 1..c : p # q => h[p] # h[q]}}

\* math.floor(n / 2)
floor_half(nn) == nn \div 2

(***************************** shamir_secret *******************************)
Init ==
    /\ FIELD_SIZE \in Primes
    /\ n \in 1..MaxN
    /\ secrets \in [1..n -> 0..MAX_INTEGER]
    /\ k = 0
    /\ pc = "start"
    /\ coeffs = <<>>
    /\ shares = <<>>
    /\ chosen_shares = <<>>
    /\ combined = <<>>
    /\ result = <<>>
    /\ avg = <<>>
    /\ fx = <<>>

\* line 131-134: t = floor(n/2); shares = generate_shares(n, t+1, secrets)
Distribute ==
    /\ pc = "start"
    /\ k' = floor_half(n) + 1
    /\ \E cs \in CoeffChoices(floor_half(n) + 1, secrets) :
          /\ coeffs' = cs
          /\ shares' = SharesOf(n, cs)
    /\ pc' = "distributed"
    /\ UNCHANGED <<FIELD_SIZE, n, secrets, chosen_shares, combined, result, avg, fx>>

\* line 137: chosen_shares = random.sample(shares, t+1)
SelectQuorum ==
    /\ pc = "distributed"
    /\ IF floor_half(n) + 1 > Len(shares)
       THEN /\ pc' = "sample_error"
            /\ UNCHANGED chosen_shares
       ELSE /\ chosen_shares' \in sample(shares, floor_half(n) + 1)
            /\ pc' = "selected"
    /\ UNCHANGED <<FIELD_SIZE, n, k, secrets, coeffs, shares, combined, result, avg, fx>>

\* line 139, the call: reconstruct_secret(chosen_shares)
Reconstruct ==
    /\ pc = "selected"
    /\ IF Raises(chosen_shares)
       THEN /\ pc' = "inverse_error"
            /\ UNCHANGED <<combined, result>>
       ELSE /\ combined' = CombinedOf(chosen_shares)
            /\ result' = <<reconstruct_secret(chosen_shares)>>
            /\ pc' = "reconstructed"
    /\ UNCHANGED <<FIELD_SIZE, n, k, secrets, coeffs, shares, chosen_shares, avg, fx>>

\* line 139-140, the division and the return: avg = result / n; the locals
\* of the call are gone
Divide ==
    /\ pc = "reconstructed"
    /\ avg' = <<result[1], n>>
    /\ pc' = "done"
    /\ coeffs' = <<>>
    /\ shares' = <<>>
    /\ chosen_shares' = <<>>
    /\ combined' = <<>>
    /\ result' = <<>>
    /\ UNCHANGED <<FIELD_SIZE, n, k, secrets, fx>>

Next == Distribute \/ SelectQuorum \/ Reconstruct \/ Divide

Spec == Init /\ [][Next]_vars

\* the scenario n = 4, secrets 10, 20, 30, 40 over a test prime: 97, and 163,
\* the least prime above 4 * 40
InitC3 ==
    /\ FIELD_SIZE \in {97, 163}
    /\ n = 4
    /\ secrets = <<10, 20, 30, 40>>
    /\ k = 0
    /\ pc = "start"
    /\ coeffs = <<>>
    /\ shares = <<>>
    /\ chosen_shares = <<>>
    /\ combined = <<>>
    /\ result = <<>>
    /\ avg = <<>>
    /\ fx = <<>>

SpecC3 == InitC3 /\ [][Next]_vars

(***************************** direct calls ********************************)
\* the functions called on their own: generate_shares(n, k, secrets), then
\* either poly(x, coeff) or reconstruct_secret on any list of the shares
InitFn ==
    /\ FIELD_SIZE \in Primes
    /\ n \in 1..MaxParticipants
    /\ k \in 1..((n \div 2) + 1)
    /\ secrets \in UNION {[1..m -> 0..MAX_INTEGER] : m \in 1..MaxSecrets}
    /\ pc = "input"
    /\ coeffs = <<>>
    /\ shares = <<>>
    /\ chosen_shares = <<>>
    /\ combined = <<>>
    /\ result = <<>>
    /\ avg = <<>>
    /\ fx = <<>>

\* the lists reconstruct_secret is called on: every non-empty list of distinct
\* shares, and every such list of fewer than all the shares followed by a
\* second copy of its first share
Probes(shs) ==
    LET distinct == UNION {sample(shs, len) : len \in 1..Len(shs)}
    IN distinct \cup {Append(q, q[1]) : q \in {d \in distinct : Len(d) < Len(shs)}}

CallGenerateShares ==
    /\ pc = "input"
    /\ \E cs \in CoeffChoices(k, secrets) :
          /\ coeffs' = cs
          /\ shares' = SharesOf(n, cs)
    /\ pc' = "shared"
    /\ UNCHANGED <<FIELD_SIZE, n, k, secrets, chosen_shares, combined, result, avg, fx>>

CallPoly ==
    /\ pc = "shared"
    /\ \E j \in DOMAIN coeffs, x \in 0..n : fx' = <<j, x, poly(x, coeffs[j])>>
    /\ pc' = "evaluated"
    /\ UNCHANGED <<FIELD_SIZE, n, k, secrets, coeffs, shares, chosen_shares,
                   combined, result, avg>>

CallReconstruct ==
    /\ pc = "shared"
    /\ \E probe \in Probes(shares) :
          /\ chosen_shares' = probe
          /\ IF Raises(probe)
             THEN /\ pc' = "probe_error"
                  /\ UNCHANGED <<combined, result>>
             ELSE /\ combined' = CombinedOf(probe)
                  /\ result' = <<reconstruct_secret(probe)>>
                  /\ pc' = "probed"
    /\ UNCHANGED <<FIELD_SIZE, n, k, secrets, coeffs, shares, avg, fx>>

NextFn == CallGenerateShares \/ CallPoly \/ CallReconstruct

SpecFn == InitFn /\ [][NextFn]_vars

(***************************** claims on shamir_secret *********************)
Called == pc = "reconstructed"

\* C1: with secrets small enough that n times the largest is below the prime
\* modulus, and the modulus above n, the value reconstruct_secret returns for
\* the quorum of floor(n/2)+1 participants is the integer sum of the secrets.
C1_ExactSum ==
    (Called /\ n * MaxSeq(secrets) < FIELD_SIZE /\ FIELD_SIZE > n)
        => result = <<SumSeq(secrets)>>

C1_Witness ==
    /\ pc = "reconstructed"
    /\ n = 3 /\ FIELD_SIZE = 5
    /\ secrets = <<1, 0, 1>>
    /\ coeffs[1][1] = 3 /\ coeffs[2][1] = 4
    /\ Indices(chosen_shares) = {2, 3}
    /\ result = <<2>>

\* C5: when n * MAX_INTEGER < FIELD_SIZE does not hold and the sum of the
\* secrets reaches the modulus, shamir_secret fails and returns no average.
C5_PrecisionViolation ==
    (n * MAX_INTEGER >= FIELD_SIZE /\ SumSeq(secrets) >= FIELD_SIZE) => avg = <<>>

C10_Quorum ==
    /\ pc # "sample_error"
    /\ (n \div 2) + 1 <= n
    /\ 2 * ((n \div 2) + 1) > n
    /\ pc \in {"selected", "reconstructed", "inverse_error"}
          => /\ Len(chosen_shares) = (n \div 2) + 1
             /\ Distinct(chosen_shares)
             /\ Indices(chosen_shares) \subseteq 1..n
             /\ \A a \in DOMAIN chosen_shares :
                   chosen_shares[a] = shares[chosen_shares[a][1]]

C10_Witness ==
    /\ pc = "selected"
    /\ n = 3
    /\ chosen_shares[1][1] = 3 /\ chosen_shares[2][1] = 1

ValidProbe == Distinct(chosen_shares) /\ Len(chosen_shares) >= k

\* C2: for shares of one generate_shares(n, floor(n/2)+1, secrets) with the
\* modulus above n, reconstruct_secret returns for every list of k or more
\* distinct participants, in every order, the value it returns for all n
\* shares in index order; that value is the sum of the secrets reduced by the
\* modulus, so it depends on neither the coefficients nor the quorum drawn.
C2_QuorumInvariant ==
    (pc \in {"probed", "probe_error"} /\ k = (n \div 2) + 1 /\ FIELD_SIZE > n)
        => /\ pc # "probe_error"
           /\ (pc = "probed" /\ ValidProbe)
                 => /\ result = <<reconstruct_secret(shares)>>
                    /\ result = <<SumSeq(secrets) % FIELD_SIZE>>

C2_Witness ==
    /\ pc = "probed"
    /\ n = 4 /\ k = 3 /\ FIELD_SIZE = 5
    /\ secrets = <<1>>
    /\ coeffs = <<<<3, 4, 1>>>>
    /\ Len(chosen_shares) = 4
    /\ chosen_shares[1][1] = 3 /\ chosen_shares[2][1] = 1
    /\ chosen_shares[3][1] = 4 /\ chosen_shares[4][1] = 2
    /\ result = <<1>>

\* the shares of the participants in T, in index order
InSet(T, shs) == SelectSeq(shs, LAMBDA sh : sh[1] \in T)

\* what the participants in T reconstruct, for each coefficient draw
Outcome(T) ==
    [cs \in CoeffChoices(k, secrets) |->
        reconstruct_secret(InSet(T, SharesOf(n, cs)))]

\* C4: n >= 3, k = floor(n/2)+1, modulus above n, coefficients drawn from the
\* whole field: for a non-empty set of fewer than k distinct participants,
\* every field value is reconstructed for the same number of coefficient
\* draws, namely one in FIELD_SIZE of them.
C4_Uniform ==
    (/\ pc = "probed"
     /\ n >= 3 /\ k = (n \div 2) + 1 /\ FIELD_SIZE > n
     /\ Exhaustive(k, secrets)
     /\ Distinct(chosen_shares) /\ Len(chosen_shares) < k)
        => LET out == Outcome(Indices(chosen_shares)) IN
           \A v \in 0..(FIELD_SIZE - 1) :
              Cardinality({cs \in DOMAIN out : out[cs] = v}) * FIELD_SIZE
                  = Cardinality(DOMAIN out)

C4_Witness ==
    /\ pc = "probed"
    /\ n = 4 /\ k = 3 /\ FIELD_SIZE = 5
    /\ secrets = <<1>>
    /\ Indices(chosen_shares) = {2, 4} /\ Len(chosen_shares) = 2
    /\ result = <<3>>

\* C6: reconstruct_secret given two shares with the same participant index
\* returns no value.
C6_DuplicateFails ==
    (pc \in {"probed", "probe_error"} /\ ~Distinct(chosen_shares)) => pc = "probe_error"

\* C7: for t >= 1 and a secret in 0..FIELD_SIZE-1 the list generate_coeff
\* returns ends with the secret, and poly evaluates it to the secret at 0;
\* for t = 1 the list is the secret alone.
C7_ConstantTerm ==
    \A j \in DOMAIN coeffs :
        (pc \in {"shared", "evaluated"} /\ secrets[j] \in 0..(FIELD_SIZE - 1))
            => /\ coeffs[j][Len(coeffs[j])] = secrets[j]
               /\ k = 1 => coeffs[j] = <<secrets[j]>>
               /\ (pc = "evaluated" /\ fx[1] = j /\ fx[2] = 0) => fx[3] = secrets[j]

C7_Witness ==
    /\ pc = "evaluated"
    /\ k = 1 /\ FIELD_SIZE = 3
    /\ secrets = <<1>>
    /\ fx = <<1, 0, 1>>

\* the value of the polynomial at x by Horner's rule, reduced at every step
RECURSIVE Horner(_, _, _)
Horner(x, coeff, acc) ==
    IF coeff = <<>> THEN acc
    ELSE Horner(x, Tail(coeff), (acc * x + Head(coeff)) % FIELD_SIZE)

\* what C8 says of the result, for polynomials of len coefficients
SharesAsClaimed(len) ==
    /\ DOMAIN shares = 1..n
    /\ Len(coeffs) = Len(secrets)
    /\ \A j \in DOMAIN coeffs :
          /\ Len(coeffs[j]) = len
          /\ coeffs[j][len] = secrets[j]
          /\ \A d \in 1..(len - 1) : coeffs[j][d] \in 0..(FIELD_SIZE - 1)
    /\ \A i \in 1..n :
          /\ shares[i][1] = i
          /\ Len(shares[i]) = Len(secrets) + 1
          /\ \A j \in DOMAIN secrets :
                /\ shares[i][j + 1] \in 0..(FIELD_SIZE - 1)
                /\ shares[i][j + 1] = Horner(i, coeffs[j], 0)

====
